---- MODULE Spec2Model ----
(***************************************************************************)
(* DocsOS API (src/main.py, src/schemas.py): sections and docs kept in a   *)
(* document store, and image upload with collision-avoiding file names.    *)
(*                                                                         *)
(* Conventions of the model                                                *)
(*  - text is a sequence of one-character strings;                         *)
(*  - an Optional value is <<>> (None / field not given) or <<v>>;         *)
(*  - an ObjectId is the natural number its bytes denote; its textual form *)
(*    is OidLen hex digits (24 in bson, scaled down here);                 *)
(*  - a file name is [base, ext] as os.path.splitext splits it, the base   *)
(*    being a stem followed by the "_<n>" suffixes it carries.             *)
(***************************************************************************)
EXTENDS Integers, Sequences, FiniteSets, TLC

VARIABLES
    sections,   \* db["section"]: records in store-native (insertion) order
    docs,       \* db["doc"]: records in store-native (insertion) order
    nextOid,    \* the ObjectId the driver generates next
    cd,         \* create_doc requests in flight: request -> frame
    resp,       \* the response the API returned last
    dir,        \* UPLOAD_DIR: stored file name -> content
    up,         \* upload requests in flight: request -> frame
    log         \* completed uploads, oldest first

storeVars == <<sections, docs, nextOid, cd, resp>>
uploadVars == <<dir, up, log>>
vars == <<sections, docs, nextOid, cd, resp, dir, up, log>>

----------------------------------------------------------------------------
(* Bounds *)

OidLen == 2          \* hex digits of an identity text
FirstOid == 10       \* the first identity the driver generates
MaxRecords == 4      \* records inserted in one run (sections and docs)
NumDocReqs == 1      \* create_doc requests served concurrently
MaxUploads == 3      \* uploads in one sequential run
MaxRaced == 2        \* uploads in one concurrent run
NumUploadReqs == 2   \* upload requests served concurrently
NumWorkers == 2      \* server processes sharing UPLOAD_DIR

None == <<>>
Some(v) == <<v>>

----------------------------------------------------------------------------
(* Identity codec: bson.ObjectId as main.py uses it *)

HexDigits == <<"0","1","2","3","4","5","6","7","8","9","a","b","c","d","e","f">>
UpperDigits == <<"0","1","2","3","4","5","6","7","8","9","A","B","C","D","E","F">>

HexChars == {HexDigits[i] : i \in 1..16} \cup {UpperDigits[i] : i \in 1..16}

HexVal(c) == CHOOSE v \in 0..15 : HexDigits[v + 1] = c \/ UpperDigits[v + 1] = c

RECURSIVE OidText(_, _)
\* str(ObjectId): w lowercase hex digits, most significant first
OidText(n, w) ==
    IF w = 0 THEN <<>>
    ELSE Append(OidText(n \div 16, w - 1), HexDigits[(n % 16) + 1])

oid_str(oid) == OidText(oid, OidLen)

\* ObjectId.is_valid(text) for a str argument
IsValid(text) == Len(text) = OidLen /\ \A i \in DOMAIN text : text[i] \in HexChars

RECURSIVE HexNum(_)
HexNum(text) ==
    IF text = <<>> THEN 0
    ELSE 16 * HexNum(SubSeq(text, 1, Len(text) - 1)) + HexVal(text[Len(text)])

\* ObjectId(text), defined where IsValid(text)
ObjectId(text) == HexNum(text)

Upper(text) ==
    [i \in DOMAIN text |->
        IF text[i] \in {HexDigits[k] : k \in 1..16}
        THEN UpperDigits[HexVal(text[i]) + 1] ELSE text[i]]

----------------------------------------------------------------------------
(* Schema validators: the pydantic models of schemas.py.  A payload is the *)
(* raw request body; a required field that is not given is None.           *)

\* class Section: title required, order None or >= 0
Section(p) ==
    /\ p.title # None
    /\ IF p.order = None THEN TRUE ELSE p.order[1] >= 0

\* class Doc: section_id and title required
Doc(p) ==
    /\ p.section_id # None
    /\ p.title # None

\* Doc.model_dump(): the validated fields, content defaulting to ""
model_dump(p) ==
    [section_id |-> p.section_id[1],
     title |-> p.title[1],
     content |-> IF p.content = None THEN "" ELSE p.content[1],
     tags |-> p.tags,
     cover_image |-> p.cover_image]

----------------------------------------------------------------------------
(* Requests the clients send *)

SectionPayloads ==
    { [title |-> Some("T"), description |-> None, order |-> None],
      [title |-> Some("U"), description |-> Some("d"), order |-> Some(1)],
      [title |-> Some(""), description |-> None, order |-> Some(0)],
      [title |-> None, description |-> Some("d"), order |-> Some(0)],
      [title |-> Some("T"), description |-> None, order |-> Some(0 - 1)] }

\* every identity the store may hand out in a run, and one it never does
OidsOfRun == FirstOid .. (FirstOid + MaxRecords)

Malformed ==
    LET t == oid_str(FirstOid) IN
    { <<>>,
      SubSeq(t, 1, Len(t) - 1),
      Append(t, "0"),
      [t EXCEPT ![Len(t)] = "g"] }

SectionIdTexts ==
    {oid_str(n) : n \in OidsOfRun} \cup {Upper(oid_str(FirstOid))} \cup Malformed

PlainBody ==
    [title |-> Some("D"), content |-> None, tags |-> None, cover_image |-> None]
FullBody ==
    [title |-> Some("E"), content |-> Some("c"), tags |-> Some(<<"t", "s">>),
     cover_image |-> Some("u")]

WithSection(b, sid) ==
    [section_id |-> sid, title |-> b.title, content |-> b.content,
     tags |-> b.tags, cover_image |-> b.cover_image]

\* the first identity of a run is a Section's: a Doc needs a Section
DocPayloads ==
    {WithSection(PlainBody, Some(t)) : t \in SectionIdTexts}
        \cup {WithSection(FullBody, Some(oid_str(FirstOid))),
              WithSection(PlainBody, None),
              [WithSection(FullBody, Some(oid_str(FirstOid))) EXCEPT !.title = None]}

Filters == {None} \cup {Some(t) : t \in SectionIdTexts}

----------------------------------------------------------------------------
(* Responses *)

NoReq == [none |-> TRUE]

Response(op, req, status, detail, id, items) ==
    [op |-> op, req |-> req, status |-> status, detail |-> detail,
     id |-> id, items |-> items]

\* {"id": ...} with status 200
Created(op, req, id) == Response(op, req, 200, "", id, <<>>)
\* a JSON list with status 200
Listed(op, req, items) == Response(op, req, 200, "", <<>>, items)
\* HTTPException(status_code, detail)
HTTPException(op, req, status, detail) == Response(op, req, status, detail, <<>>, <<>>)
\* FastAPI's answer to a body that fails its pydantic model
Unprocessable(op, req) == Response(op, req, 422, "validation", <<>>, <<>>)

----------------------------------------------------------------------------
(* Document store gateway *)

Inserted == nextOid - FirstOid

InFlightInserts == Cardinality({r \in DOMAIN cd : cd[r].pc = "insert"})

\* the store has room for one more record of this run
Room == Inserted + InFlightInserts < MaxRecords

\* database.create_document("section", payload): the payload's fields under
\* a generated _id
create_document(coll, p, oid) ==
    Append(coll, [_id |-> oid, title |-> p.title[1],
                  description |-> p.description, order |-> p.order])

\* a find_one that ignores its filter
find_oneMutAny(coll, oid) == IF coll = <<>> THEN None ELSE Some(Head(coll))
\* database.get_documents("section", {}, None): every record, in
\* store-native order
get_documents(coll) == coll

\* db["section"].find_one({"_id": oid})
find_one(coll, oid) ==
    IF \E i \in DOMAIN coll : coll[i]._id = oid
    THEN Some(coll[CHOOSE i \in DOMAIN coll : coll[i]._id = oid])
    ELSE None

\* db["doc"].insert_one(data)
insert_one(coll, data, oid) ==
    Append(coll, [_id |-> oid, section_id |-> data.section_id,
                  title |-> data.title, content |-> data.content,
                  tags |-> data.tags, cover_image |-> data.cover_image])

RECURSIVE SelectRecs(_, _)
SelectRecs(coll, oidOpt) ==
    IF coll = <<>> THEN <<>>
    ELSE LET rest == SelectRecs(Tail(coll), oidOpt) IN
         IF oidOpt = None \/ Head(coll).section_id = oidOpt[1]
         THEN <<Head(coll)>> \o rest ELSE rest

\* db["doc"].find(query), query = {} or {"section_id": oid}
find(coll, oidOpt) == SelectRecs(coll, oidOpt)

----------------------------------------------------------------------------
(* Serialization *)

\* serialize_doc on a section record
serialize_section(s) ==
    [id |-> oid_str(s._id), title |-> s.title,
     description |-> s.description, order |-> s.order]

\* the section_id taken from the record's own _id
serialize_docMutId(d) ==
    [id |-> oid_str(d._id), section_id |-> oid_str(d._id),
     title |-> d.title, content |-> d.content,
     tags |-> d.tags, cover_image |-> d.cover_image]
\* serialize_doc on a doc record
serialize_doc(d) ==
    [id |-> oid_str(d._id), section_id |-> oid_str(d.section_id),
     title |-> d.title, content |-> d.content,
     tags |-> d.tags, cover_image |-> d.cover_image]

----------------------------------------------------------------------------
(* Upload namer: file names and the upload directory *)

\* a file name as os.path.splitext splits it
FileName(base, ext) == [base |-> base, ext |-> ext]

\* the suffix counted from 0
SuffixedMutZero(base, idx, ext) == FileName(Append(base, idx - 1), ext)
\* f"{base}_{idx}{ext}"
Suffixed(base, idx, ext) == FileName(Append(base, idx), ext)

XPng == FileName(<<"x">>, ".png")
X1Png == FileName(<<"x", 1>>, ".png")
X2Png == FileName(<<"x", 2>>, ".png")
XBare == FileName(<<"x">>, "")

\* files UPLOAD_DIR may hold when the process starts (makedirs exist_ok)
InitNames == {XPng, X1Png, X2Png}
Old == <<"o", "o">>

\* file names and payloads the clients upload
Requested == {XPng, X1Png, XBare}
Payloads == {<<"p", "p">>, <<"q">>}

\* an existence test that never sees the file
existsMutNever(d, name) == FALSE
\* os.path.exists(path)
exists(d, name) == name \in DOMAIN d

\* open(path, "wb"): creates the file, or truncates the one that is there
open_wb(d, name) == [n \in DOMAIN d \cup {name} |-> IF n = name THEN <<>> ELSE d[n]]

\* f.write(data) on a handle positioned at 0: the bytes replace the start of
\* whatever the file holds by now
write(d, name, data) ==
    [d EXCEPT ![name] = data \o SubSeq(d[name], Len(data) + 1, Len(d[name]))]

\* f"/static/{filename}"
StaticUrl(name) == [prefix |-> "/static/", filename |-> name]

----------------------------------------------------------------------------
(* list.sort(key=lambda x: x.get("order", 0)) *)

\* x.get("order", 0): the default applies only when the key is absent
SortKey(x) == IF "order" \in DOMAIN x THEN x.order ELSE Some(0)

\* Python compares the keys with <; None is not orderable, so a comparison
\* with a None operand raises TypeError.  Sorting two or more items compares
\* every item with another at least once.
SortRaises(items) ==
    /\ Len(items) >= 2
    /\ \E i \in DOMAIN items : SortKey(items[i]) = None

RECURSIVE InsertSorted(_, _)
\* x goes after every item whose key is not greater (stable)
InsertSorted(sorted, x) ==
    IF sorted = <<>> THEN <<x>>
    ELSE IF SortKey(x)[1] < SortKey(Head(sorted))[1]
         THEN <<x>> \o sorted
         ELSE <<Head(sorted)>> \o InsertSorted(Tail(sorted), x)

RECURSIVE SortByOrder(_)
SortByOrder(items) ==
    IF Len(items) <= 1 THEN items
    ELSE InsertSorted(SortByOrder(SubSeq(items, 1, Len(items) - 1)),
                      items[Len(items)])

----------------------------------------------------------------------------
(* Entity repository: the handlers of main.py *)

Init ==
    /\ sections = <<>>
    /\ docs = <<>>
    /\ nextOid = FirstOid
    /\ cd = [r \in 1..NumDocReqs |-> [pc |-> "idle"]]
    /\ resp = Response("none", NoReq, 0, "", <<>>, <<>>)
    /\ \E D \in SUBSET InitNames : dir = [n \in D |-> Old]
    /\ up = [r \in 1..NumUploadReqs |-> [pc |-> "idle"]]
    /\ log = <<>>

\* POST /sections with a body the Section model rejects
create_section_invalid(p) ==
    /\ ~Section(p)
    /\ resp' = Unprocessable("create_section", p)
    /\ UNCHANGED <<sections, docs, nextOid, cd>>

\* POST /sections
create_section(p) ==
    /\ Section(p)
    /\ Room
    /\ sections' = create_document(sections, p, nextOid)
    /\ nextOid' = nextOid + 1
    /\ resp' = Created("create_section", p, oid_str(nextOid))
    /\ UNCHANGED <<docs, cd>>

\* the body of list_sections, on the records the store returns
list_sections_result(items) ==
    IF SortRaises(items)
    THEN HTTPException("list_sections", NoReq, 500, "TypeError")
    ELSE LET sorted == SortByOrder(items) IN
         Listed("list_sections", NoReq,
                [i \in DOMAIN sorted |-> serialize_section(sorted[i])])

\* GET /sections
list_sections ==
    /\ resp' = list_sections_result(get_documents(sections))
    /\ UNCHANGED <<sections, docs, nextOid, cd>>

\* POST /docs with a body the Doc model rejects
create_doc_invalid(p) ==
    /\ ~Doc(p)
    /\ resp' = Unprocessable("create_doc", p)
    /\ UNCHANGED <<sections, docs, nextOid, cd>>

\* the lookup without the find_one
LookupMutNoFind(coll, text) == IF IsValid(text) THEN Some(text) ELSE None
\* the section lookup of create_doc (main.py line 83)
Lookup(coll, text) ==
    IF IsValid(text) THEN find_one(coll, ObjectId(text)) ELSE None

\* POST /docs, up to the section check: the request ends here with 400 when
\* the section is not found
create_doc_check(r, p) ==
    /\ cd[r].pc = "idle"
    /\ Doc(p)
    /\ LET sec == Lookup(sections, p.section_id[1]) IN
       IF sec = None
       THEN /\ resp' = HTTPException("create_doc", p, 400, "Section not found")
            /\ UNCHANGED <<sections, docs, nextOid, cd>>
       ELSE /\ Room
            /\ cd' = [cd EXCEPT ![r] = [pc |-> "insert", payload |-> p]]
            /\ UNCHANGED <<sections, docs, nextOid, resp>>

\* POST /docs, from model_dump to the response
create_doc_insert(r) ==
    /\ cd[r].pc = "insert"
    /\ LET payload == cd[r].payload
           data == [model_dump(payload) EXCEPT
                        !.section_id = ObjectId(payload.section_id[1])]
       IN /\ docs' = insert_one(docs, data, nextOid)
          /\ resp' = Created("create_doc", payload, oid_str(nextOid))
    /\ nextOid' = nextOid + 1
    /\ cd' = [cd EXCEPT ![r] = [pc |-> "idle"]]
    /\ UNCHANGED sections

\* a malformed filter matching nothing
QueryMutStrict(f) == IF f # None /\ IsValid(f[1]) THEN Some(ObjectId(f[1])) ELSE Some(0)
\* the query of list_docs (main.py lines 98-100)
Query(f) ==
    IF f # None /\ f[1] # <<>> /\ IsValid(f[1]) THEN Some(ObjectId(f[1])) ELSE None

\* the body of list_docs
list_docs_result(coll, f) ==
    LET items == find(coll, Query(f)) IN
    Listed("list_docs", [section_id |-> f],
           [i \in DOMAIN items |-> serialize_doc(items[i])])

\* GET /docs
list_docs(f) ==
    /\ resp' = list_docs_result(docs, f)
    /\ UNCHANGED <<sections, docs, nextOid, cd>>

StoreNext ==
    \/ \E p \in SectionPayloads : create_section_invalid(p) /\ UNCHANGED uploadVars
    \/ \E p \in SectionPayloads : create_section(p) /\ UNCHANGED uploadVars
    \/ list_sections /\ UNCHANGED uploadVars
    \/ \E p \in DocPayloads : create_doc_invalid(p) /\ UNCHANGED uploadVars
    \/ \E r \in DOMAIN cd, p \in DocPayloads : create_doc_check(r, p) /\ UNCHANGED uploadVars
    \/ \E r \in DOMAIN cd : create_doc_insert(r) /\ UNCHANGED uploadVars
    \/ \E f \in Filters : list_docs(f) /\ UNCHANGED uploadVars

\* the store's handlers, the upload directory being a fresh one
InitStore == Init /\ dir = <<>>

Spec == InitStore /\ [][StoreNext]_vars

----------------------------------------------------------------------------
(* upload_image.  A worker process runs one coroutine at a time and       *)
(* switches only at an await; the handler's one await is file.read(),     *)
(* between open and write.  Worker processes run in parallel.             *)

\* coroutines switching anywhere
BusyMutNever(w, r) == FALSE
\* worker w is inside the synchronous part of some other request
Busy(w, r) ==
    \E q \in DOMAIN up : q # r /\ up[q].pc \in {"probe", "open"} /\ up[q].worker = w

\* worker processes are interchangeable: a request goes to a worker that
\* serves another request, or to the first worker that serves none
Workers ==
    LET used == {up[q].worker : q \in {q \in DOMAIN up : up[q].pc # "idle"}} IN
    used \cup {w \in 1..NumWorkers : w \notin used /\ \A v \in 1..(w - 1) : v \in used}

Started == Len(log) + Cardinality({r \in DOMAIN up : up[r].pc # "idle"})

\* lines 115-119: filename, path, base, ext, idx
upload_begin(r, w, F, data) ==
    /\ up[r].pc = "idle"
    /\ \A q \in DOMAIN up : q < r => up[q].pc # "idle"
    /\ ~Busy(w, r)
    /\ up' = [up EXCEPT ![r] =
                [pc |-> "probe", worker |-> w, requested |-> F, filename |-> F,
                 idx |-> 1, data |-> data, before |-> dir]]
    /\ UNCHANGED <<dir, log>>

\* lines 120-123: one test of the while condition, and the loop body
upload_probe(r) ==
    /\ up[r].pc = "probe"
    /\ IF exists(dir, up[r].filename)
       THEN up' = [up EXCEPT
                ![r].filename = Suffixed(up[r].requested.base, up[r].idx,
                                         up[r].requested.ext),
                ![r].idx = up[r].idx + 1]
       ELSE up' = [up EXCEPT ![r].pc = "open"]
    /\ UNCHANGED <<dir, log>>

\* line 124: open(path, "wb")
upload_open(r) ==
    /\ up[r].pc = "open"
    /\ dir' = open_wb(dir, up[r].filename)
    /\ up' = [up EXCEPT ![r].pc = "read"]
    /\ UNCHANGED log

\* lines 125-128: the read completes, write, close, return {"url": url}
upload_finish(r) ==
    /\ up[r].pc = "read"
    /\ ~Busy(up[r].worker, r)
    /\ dir' = write(dir, up[r].filename, up[r].data)
    /\ log' = Append(log, [requested |-> up[r].requested, data |-> up[r].data,
                           before |-> up[r].before, worker |-> up[r].worker,
                           url |-> StaticUrl(up[r].filename)])
    /\ up' = [up EXCEPT ![r] = [pc |-> "idle"]]

Quiet(r) == \A q \in DOMAIN up : q # r => up[q].pc = "idle"

UploadSteps ==
    \/ \E r \in DOMAIN up : upload_probe(r) /\ UNCHANGED storeVars
    \/ \E r \in DOMAIN up : upload_open(r) /\ UNCHANGED storeVars
    \/ \E r \in DOMAIN up : upload_finish(r) /\ UNCHANGED storeVars

\* uploads arrive at any time
UploadNext ==
    \/ \E r \in DOMAIN up, w \in Workers, F \in Requested, data \in Payloads :
            Started < MaxRaced /\ upload_begin(r, w, F, data) /\ UNCHANGED storeVars
    \/ UploadSteps

\* an upload arrives only when no other is in progress
SeqNext ==
    \/ \E r \in DOMAIN up, w \in Workers, F \in Requested, data \in Payloads :
            Started < MaxUploads /\ Quiet(r) /\ upload_begin(r, w, F, data) /\ UNCHANGED storeVars
    \/ UploadSteps

SpecUpload == Init /\ [][UploadNext]_vars

SpecSeq == Init /\ [][SeqNext]_vars

----------------------------------------------------------------------------
(* Notions the properties are stated in *)

LowerText(text) ==
    [i \in DOMAIN text |->
        IF text[i] \in {UpperDigits[k] : k \in 1..16}
        THEN HexDigits[HexVal(text[i]) + 1] ELSE text[i]]

\* text has the form of an identity
WellFormed(text) == Len(text) = OidLen /\ \A i \in DOMAIN text : text[i] \in HexChars

\* text is the identity of a stored Section
Resolves(text) ==
    /\ WellFormed(text)
    /\ \E i \in DOMAIN sections : OidText(sections[i]._id, OidLen) = LowerText(text)

\* the step completes a request of this operation
Completes(op) == resp' # resp /\ resp'.op = op

IsPrefix(s, t) == Len(s) <= Len(t) /\ SubSeq(t, 1, Len(s)) = s

\* C1: a create_doc whose section_id does not resolve to a stored Section
\* (malformed text, or a well-formed identity no Section has) is answered
\* 400 "Section not found", and the step leaves the Doc records as they were.
C1_UnknownSectionRejected ==
    [][(Completes("create_doc") /\ Doc(resp'.req)
            /\ ~Resolves(resp'.req.section_id[1]))
        => (/\ resp'.status = 400
            /\ resp'.detail = "Section not found"
            /\ docs' = docs)]_vars

\* a well-formed section_id that no Section has was rejected, Docs being stored
C1_Witness ==
    /\ resp.op = "create_doc"
    /\ resp.status = 400
    /\ Doc(resp.req)
    /\ WellFormed(resp.req.section_id[1])
    /\ docs # <<>>

\* the stored Doc a returned record stands for
DocOf(item) == {i \in DOMAIN docs :
                    /\ WellFormed(item.id) /\ HexNum(item.id) = docs[i]._id
                    /\ WellFormed(item.section_id)
                    /\ HexNum(item.section_id) = docs[i].section_id
                    /\ item.title = docs[i].title
                    /\ item.content = docs[i].content
                    /\ item.tags = docs[i].tags
                    /\ item.cover_image = docs[i].cover_image}

\* the stored Docs list_docs is to return for filter f
Wanted(f) ==
    IF f # None /\ WellFormed(f[1])
    THEN {i \in DOMAIN docs : docs[i].section_id = HexNum(f[1])}
    ELSE DOMAIN docs

\* C6: list_docs returns exactly the Docs of section S for a well-formed S,
\* every Doc for a malformed S or no filter, each record once, with its id
\* and section_id in textual form.
C6_ListDocsFilter ==
    resp.op = "list_docs" =>
        /\ resp.status = 200
        /\ Len(resp.items) = Cardinality(Wanted(resp.req.section_id))
        /\ \A k \in DOMAIN resp.items :
                \E i \in DocOf(resp.items[k]) : i \in Wanted(resp.req.section_id)
        /\ \A i \in Wanted(resp.req.section_id) :
                \E k \in DOMAIN resp.items : i \in DocOf(resp.items[k])

\* a well-formed filter selected some of the stored Docs and not all
C6_Witness ==
    /\ resp.op = "list_docs"
    /\ resp.req.section_id # None
    /\ WellFormed(resp.req.section_id[1])
    /\ resp.items # <<>>
    /\ Len(resp.items) < Len(docs)

\* the record of the unfiltered list that carries the returned id, if the
\* created Doc reads back as given, its section_id being sid
ReadsBack(sid) ==
    LET listed == list_docs_result(docs, None) IN
    /\ listed.status = 200
    /\ \E k \in DOMAIN listed.items :
        LET item == listed.items[k] IN
        /\ item.id = resp.id
        /\ item.title = resp.req.title[1]
        /\ item.content = (IF resp.req.content = None THEN "" ELSE resp.req.content[1])
        /\ item.tags = resp.req.tags
        /\ item.cover_image = resp.req.cover_image
        /\ item.section_id = sid

\* C8 as stated: a create_doc whose section_id resolves succeeds, and the Doc
\* reads back with the fields given and a section_id textually equal to the
\* text supplied.
C8_SectionIdTextEqual ==
    (resp.op = "create_doc" /\ Doc(resp.req) /\ Resolves(resp.req.section_id[1]))
        => (resp.status = 200 /\ ReadsBack(resp.req.section_id[1]))

\* C8 amended: a create_doc whose section_id resolves succeeds, and the Doc
\* reads back with the fields given and the section_id in canonical
\* (lowercase) form: the id text of the Section it names, equal to the text
\* supplied when that text has no uppercase digit.
C8_SectionIdCanonical ==
    (resp.op = "create_doc" /\ Doc(resp.req) /\ Resolves(resp.req.section_id[1]))
        => (/\ resp.status = 200
            /\ ReadsBack(LowerText(resp.req.section_id[1])))

\* a Doc was created under a section_id written with an uppercase digit
C8_Witness ==
    /\ resp.op = "create_doc"
    /\ resp.status = 200
    /\ resp.req.section_id[1] # LowerText(resp.req.section_id[1])

\* C9: every stored Doc names a stored Section, and no step removes or
\* changes a stored Section or Doc.
C9_ReferentialIntegrity ==
    /\ [](\A i \in DOMAIN docs : \E j \in DOMAIN sections :
                sections[j]._id = docs[i].section_id)
    /\ [][IsPrefix(sections, sections') /\ IsPrefix(docs, docs')]_vars

\* a Doc is stored under the first of two Sections, a second create_doc
\* being between its section check and its insert
C9_Witness ==
    /\ Len(sections) >= 2
    /\ docs # <<>>
    /\ docs[1].section_id = sections[1]._id
    /\ \E r \in DOMAIN cd : cd[r].pc = "insert"

\* the order a Section sorts by: its order, an absent one counting as 0
OrderOrZero(item) == IF item.order = None THEN 0 ELSE item.order[1]

\* C5: list_sections succeeds for any stored Sections, those created
\* without an order included, and its output is non-decreasing in order,
\* an absent order counting as 0.
C5_ListSectionsSorted ==
    resp.op = "list_sections" =>
        /\ resp.status = 200
        /\ Len(resp.items) = Len(sections)
        /\ \A i \in DOMAIN resp.items : \A j \in DOMAIN resp.items :
                i < j => OrderOrZero(resp.items[i]) <= OrderOrZero(resp.items[j])

\* C7: after a create_section of a valid payload, list_sections lists
\* exactly one entry under the returned id, with the title, description and
\* order given; the id is not empty and no earlier Section has it.
C7_CreatedSectionListed ==
    (resp.op = "create_section" /\ Section(resp.req)) =>
        LET listed == list_sections_result(sections)
            mine == {k \in DOMAIN listed.items : listed.items[k].id = resp.id}
        IN /\ resp.status = 200
           /\ resp.id # <<>>
           /\ \A i \in 1..(Len(sections) - 1) :
                    OidText(sections[i]._id, OidLen) # resp.id
           /\ listed.status = 200
           /\ Cardinality(mine) = 1
           /\ \A k \in mine :
                /\ listed.items[k].title = resp.req.title[1]
                /\ listed.items[k].description = resp.req.description
                /\ listed.items[k].order = resp.req.order

\* a Section payload the data model forbids
BadSection(p) ==
    \/ p.title = None
    \/ p.title = Some("")
    \/ (p.order # None /\ p.order[1] < 0)

\* a Doc payload the data model forbids
BadDoc(p) == p.title = None \/ p.section_id = None

\* C10: a Section payload with a missing or empty title or a negative
\* order, and a Doc payload with a missing title or section_id, is answered
\* with a validation failure, and no such record is stored.
C10_InvalidNeverStored ==
    /\ (resp.op = "create_section" /\ BadSection(resp.req)) => resp.status = 422
    /\ (resp.op = "create_doc" /\ BadDoc(resp.req)) => resp.status = 422
    /\ \A i \in DOMAIN sections :
            sections[i].title # "" /\ OrderOrZero(sections[i]) >= 0

----------------------------------------------------------------------------
(* Upload namer *)

\* the name F, or base_n.ext for the least n >= 1 that is unused
LeastUnused(F, used) ==
    IF F \notin used THEN F
    ELSE LET name(n) == [base |-> F.base \o <<n>>, ext |-> F.ext]
             n == CHOOSE n \in 1..(Cardinality(used) + 1) :
                    /\ name(n) \notin used
                    /\ \A m \in 1..(n - 1) : name(m) \in used
         IN name(n)

\* C2: with uploads one after another, an upload stores under a name the
\* directory did not hold when the upload began, and every file the
\* directory held then is there afterwards with the content it had.
C2_NoOverwriteSequential ==
    /\ \A r \in DOMAIN up : up[r].pc = "read" =>
            up[r].filename \notin DOMAIN up[r].before
    /\ \A k \in DOMAIN log :
        /\ log[k].url.filename \notin DOMAIN log[k].before
        /\ \A n \in DOMAIN log[k].before :
                n \in DOMAIN dir /\ dir[n] = log[k].before[n]

\* an upload whose requested name was taken has completed
C2_Witness ==
    \E k \in DOMAIN log :
        /\ log[k].requested \in DOMAIN log[k].before
        /\ log[k].url.filename \in DOMAIN dir

\* C3: an upload of F stores under F when F is unused and else under
\* base_n.ext for the least n >= 1 that is unused; the returned path is
\* /static/ followed by the stored name, which holds the payload; three
\* uploads of x.png into a directory without x.png, x_1.png and x_2.png
\* store x.png, x_1.png, x_2.png in that order.
C3_StoredName ==
    /\ \A k \in DOMAIN log :
        /\ log[k].url.prefix = "/static/"
        /\ log[k].url.filename = LeastUnused(log[k].requested, DOMAIN log[k].before)
        /\ log[k].url.filename \in DOMAIN dir
        /\ dir[log[k].url.filename] = log[k].data
    /\ (/\ Len(log) >= 3
        /\ \A k \in 1..3 : log[k].requested = XPng
        /\ DOMAIN log[1].before \cap {XPng, X1Png, X2Png} = {})
        => (/\ log[1].url.filename = XPng
            /\ log[2].url.filename = X1Png
            /\ log[3].url.filename = X2Png)

\* x.png was uploaded three times into a directory without the three names
C3_Witness ==
    /\ Len(log) >= 3
    /\ \A k \in 1..3 : log[k].requested = XPng
    /\ DOMAIN log[1].before \cap {XPng, X1Png, X2Png} = {}

\* uploads j and k of the log were given the same stored name
SameName(j, k) == j < k /\ log[j].url = log[k].url

\* no upload wrote, or is about to write, the file of log entry k after it
LastWriter(k) ==
    /\ \A l \in DOMAIN log : l > k => log[l].url # log[k].url
    /\ \A r \in DOMAIN up : up[r].pc = "read" => up[r].filename # log[k].url.filename

====
